---- MODULE Spec2Model ----
(***************************************************************************)
(* Virga: a vsock transport library.  One session facade (VirgeClient or   *)
(* VirgeServer) over one session handler (XTransportHandler, the framed    *)
(* variant, or YamuxTransportHandler, the multiplexed variant), a peer     *)
(* session on the other end of the socket, and the two directions of the   *)
(* link between them.                                                      *)
(*                                                                         *)
(* Payload bytes are labelled by their position in the direction's byte    *)
(* stream (the k-th byte written is k): the code only copies bytes and     *)
(* never inspects them, so pairwise distinct bytes are the most general    *)
(* payloads, and every loss, duplication or reordering shows.              *)
(***************************************************************************)
EXTENDS Integers, Sequences, FiniteSets, TLC

\* Bounds of the model.
MaxLen == 2
MaxMsgs == 2
MaxBuf == 2
MaxRecvs == 3

VARIABLES
    variant,          \* "framed" (use-xtransport) or "mux" (use-yamux): a build feature
    role,             \* "client" (VirgeClient) or "server" (VirgeServer)
    connected,        \* facade field connected
    read_buffer,      \* facade field read_buffer: Vec<u8>
    read_state,       \* facade field read_state: ReadState
    stream,           \* XTransportHandler.stream is Some
    transport,        \* XTransportHandler.transport is Some
    yamux_stream,     \* YamuxTransportHandler.yamux_stream is Some
    connection,       \* YamuxTransportHandler.connection is Some
    driver_handle,    \* YamuxTransportHandler.driver_handle is Some
    driver_stop_flag, \* YamuxTransportHandler.driver_stop_flag
    inbound,          \* link peer -> facade: chunks written and not yet received
    inClosed,         \* the peer closed its sending side (EOF follows the chunks)
    inBroken,         \* a write of the peer failed: its stream accepts nothing more
    outbound,         \* link facade -> peer
    outClosed,        \* the local session closed its sending side
    outBroken,        \* a local write failed
    sentLog,          \* history: payloads of the peer's successful sends, in call order
    rcvLog,           \* history: what the local session's recv returned, in call order
    outLog,           \* history: payloads of the facade's successful send/write
    peerRcvLog,       \* history: what the peer session's recv returned
    cur,              \* history: the message the read calls are consuming
    rec,              \* history: a refused disconnect and the reads after it
    nsent,            \* history: sends made so far on either end, over all sessions
    nrecv,            \* history: successful session receives so far, on either end
    phase,            \* history: "new", "up" (connect/accept succeeded), "down"
    last,             \* the operation that led to this state and its result
    pc,               \* the calling thread's position inside the yamux handler
    call,             \* the handler method the calling thread is in
    drv,              \* the driver thread: "none", "check", "lock", "poll", "stopped"
    lock,             \* holder of the tokio Mutex around the yamux Connection
    TOKIO_RUNTIME,    \* the OnceLock<Runtime>: "uninit", "running" (being built), "ready"
    created,          \* history: Runtimes built so far
    rt,               \* per thread: progress of its current get_tokio_runtime()
    vsock,            \* the socket under the Connection: "none", "open", "closed", "failed"
    peerStream,       \* the stream the peer opens: "none", "pending", "session", "discarded"
    nopened,          \* history: streams the handler has obtained since it last held none
    ncalls,           \* history: handler methods called so far
    unflushed,        \* the yamux stream holds written bytes that no flush has pushed on
    extraStream,      \* a further stream the peer opens: "none", "pending", "discarded"
    staleStream,      \* the stream held was opened on a connection since replaced
    orphans,          \* driver threads still running whose JoinHandle was overwritten
    afterDriverEnd    \* history: the last send/recv was called right after the driver
                      \* had ended on its connection's error or closure

facadeVars == <<connected, read_buffer, read_state>>
xVars == <<stream, transport>>
muxVars == <<yamux_stream, connection, driver_handle, driver_stop_flag>>
inVars == <<inbound, inClosed, inBroken>>
outVars == <<outbound, outClosed, outBroken>>
logVars == <<sentLog, rcvLog, outLog, peerRcvLog>>
countVars == <<nsent, nrecv>>
threadVars == <<pc, call, drv, lock, TOKIO_RUNTIME, created, rt, vsock, peerStream,
                nopened, ncalls, unflushed, extraStream, staleStream, orphans,
                afterDriverEnd>>
vars == <<variant, role, facadeVars, xVars, muxVars, inVars, outVars, logVars,
          countVars, cur, rec, phase, last, threadVars>>

----------------------------------------------------------------------------
\* Sequences of bytes.

Min(a, b) == IF a <= b THEN a ELSE b

RECURSIVE Flatten(_)
Flatten(chunks) ==
    IF chunks = <<>> THEN <<>> ELSE Head(chunks) \o Flatten(Tail(chunks))

Take(s, n) == SubSeq(s, 1, n)
Drop(s, n) == SubSeq(s, n + 1, Len(s))

\* The payload of n bytes that follows `before` bytes in a direction's stream.
Payload(before, n) == [i \in 1..n |-> before + i]

Ceil(n, k) == (n + k - 1) \div k

----------------------------------------------------------------------------
\* ReadState (lib.rs)

Idle == [tag |-> "Idle", total |-> 0, read |-> 0]
Reading(t, r) == [tag |-> "Reading", total |-> t, read |-> r]

\* no_has_data(): read_buffer.is_empty() && read_state == Idle
no_has_data(rb, rs) == rb = <<>> /\ rs = Idle

\* Results: an io::Error is named by its ErrorKind; the refusal of disconnect is
\* ErrorKind::Other with the message "Cannot disconnect: n bytes of unread data".
Res(op, res, n, data, called) ==
    [op |-> op, res |-> res, n |-> n, data |-> data, called |-> called]

----------------------------------------------------------------------------
\* The protocol libraries under the handlers.

\* xtransport send_message: the frame is put on the wire whole, or the call fails.
SendMessageOutcomes(data) ==
    { [ok |-> TRUE, put |-> <<data>>, broken |-> FALSE],
      [ok |-> FALSE, put |-> <<>>, broken |-> FALSE] }

\* futures write_all on a yamux stream: all the bytes, or an error after a strict
\* prefix of them was written; a yamux stream that failed a write stays failed.
WriteAllOutcomes(data) ==
    { [ok |-> TRUE, put |-> IF data = <<>> THEN <<>> ELSE <<data>>, broken |-> FALSE] }
    \cup { [ok |-> FALSE, put |-> IF j = 0 THEN <<>> ELSE <<Take(data, j)>>,
            broken |-> TRUE] : j \in 0..(Len(data) - 1) }

\* xtransport recv_message: the next whole frame; an error at end of stream or on
\* an I/O failure; otherwise the call blocks (no outcome).
RecvMessageOutcomes(wire, closed) ==
    (IF wire # <<>>
        THEN { [ok |-> TRUE, data |-> Head(wire), rest |-> Tail(wire)] }
        ELSE {})
    \cup { [ok |-> FALSE, data |-> <<>>, rest |-> wire] }

\* futures read_to_end on a yamux stream: every byte up to the end of the stream,
\* so the call returns only once the writer has closed; or an error.
ReadToEndOutcomes(wire, closed) ==
    (IF closed
        THEN { [ok |-> TRUE, data |-> Flatten(wire), rest |-> <<>>] }
        ELSE {})
    \cup { [ok |-> FALSE, data |-> <<>>, rest |-> wire] }

----------------------------------------------------------------------------
\* Session handlers: XTransportHandler and YamuxTransportHandler.

\* is_connected()
XIsConnected(s, t) == s /\ t
YamuxIsConnected(ys, c) == ys /\ c

\* XTransportHandler::send: Ok(data.len()) after send_message succeeded.
XSendResult(t, data, w) ==
    IF ~t THEN [ok |-> FALSE, n |-> 0, kind |-> "TransportError"]
    ELSE IF w.ok THEN [ok |-> TRUE, n |-> Len(data), kind |-> "Ok"]
    ELSE [ok |-> FALSE, n |-> 0, kind |-> "Other"]

\* Mutant: the error of write_all is dropped.
YamuxSendResult_swallows(isconn, data, w) ==
    IF ~isconn THEN [ok |-> FALSE, n |-> 0, kind |-> "TransportError"]
    ELSE [ok |-> TRUE, n |-> Len(data), kind |-> "Ok"]

\* YamuxTransportHandler::send: Ok(data.len()) after write_all succeeded.
YamuxSendResult(isconn, data, w) ==
    IF ~isconn THEN [ok |-> FALSE, n |-> 0, kind |-> "TransportError"]
    ELSE IF w.ok THEN [ok |-> TRUE, n |-> Len(data), kind |-> "Ok"]
    ELSE [ok |-> FALSE, n |-> 0, kind |-> "Other"]

\* Mutant: the last byte of the frame is lost.
XRecvResult_truncates(t, r) ==
    IF ~t THEN [ok |-> FALSE, data |-> <<>>, kind |-> "TransportError"]
    ELSE IF r.ok THEN [ok |-> TRUE, data |-> Take(r.data, Len(r.data) - 1), kind |-> "Ok"]
    ELSE [ok |-> FALSE, data |-> <<>>, kind |-> "Other"]

\* XTransportHandler::recv / YamuxTransportHandler::recv: the library's data as is.
XRecvResult(t, r) ==
    IF ~t THEN [ok |-> FALSE, data |-> <<>>, kind |-> "TransportError"]
    ELSE IF r.ok THEN [ok |-> TRUE, data |-> r.data, kind |-> "Ok"]
    ELSE [ok |-> FALSE, data |-> <<>>, kind |-> "Other"]

YamuxRecvResult(isconn, r) ==
    IF ~isconn THEN [ok |-> FALSE, data |-> <<>>, kind |-> "TransportError"]
    ELSE IF r.ok THEN [ok |-> TRUE, data |-> r.data, kind |-> "Ok"]
    ELSE [ok |-> FALSE, data |-> <<>>, kind |-> "Other"]

\* Mutant: a send overtakes the sends before it.
Transmit_overtakes(wire, put) == put \o wire

\* send returns only after the library call has completed (block_on / a blocking
\* call), so what one send puts on the link follows what the sends before it put.
Transmit_drops(wire, put) == wire

Transmit(wire, put) == wire \o put

\* What a send on a session does to its outgoing link, and what it returns:
\* the set of [res, put, broken] the handler can produce for `data`.
HandlerSend(v, t, isconn, broken, data) ==
    IF v = "framed"
    THEN IF ~t
         THEN { [res |-> XSendResult(t, data, [ok |-> FALSE]), put |-> <<>>,
                 broken |-> broken] }
         ELSE { [res |-> XSendResult(t, data, w), put |-> w.put, broken |-> broken]
                : w \in SendMessageOutcomes(data) }
    ELSE IF ~isconn
         THEN { [res |-> YamuxSendResult(isconn, data, [ok |-> FALSE]), put |-> <<>>,
                 broken |-> broken] }
         ELSE IF broken
         THEN { [res |-> YamuxSendResult(isconn, data, [ok |-> FALSE]), put |-> <<>>,
                 broken |-> TRUE] }
         ELSE { [res |-> YamuxSendResult(isconn, data, w), put |-> w.put,
                 broken |-> w.broken] : w \in WriteAllOutcomes(data) }

\* What a recv on a session does to its incoming link, and what it returns.
HandlerRecv(v, t, isconn, wire, closed) ==
    IF v = "framed"
    THEN IF ~t
         THEN { [res |-> XRecvResult(t, [ok |-> FALSE]), rest |-> wire] }
         ELSE { [res |-> XRecvResult(t, r), rest |-> r.rest]
                : r \in RecvMessageOutcomes(wire, closed) }
    ELSE IF ~isconn
         THEN { [res |-> YamuxRecvResult(isconn, [ok |-> FALSE]), rest |-> wire] }
         ELSE { [res |-> YamuxRecvResult(isconn, r), rest |-> r.rest]
                : r \in ReadToEndOutcomes(wire, closed) }

LocalIsConnected ==
    IF variant = "framed" THEN XIsConnected(stream, transport)
    ELSE YamuxIsConnected(yamux_stream, connection)

\* The facade's is_connected(): self.connected && transport_handler.is_connected().
IsConnected == connected /\ LocalIsConnected

----------------------------------------------------------------------------
\* The facade's read path.

\* Mutant: the remainder is stored from one byte too far.
ReadNewMessage_skipsByte(rb, rs, data, k) ==
    IF Len(data) <= k
    THEN [n |-> Len(data), out |-> data, rb |-> rb, rs |-> rs]
    ELSE [n |-> k, out |-> Take(data, k), rb |-> rb \o Drop(data, k + 1),
          rs |-> Reading(Len(data), k)]

\* Mutant: the fit test is strict, so a message that fills the buffer exactly is
\* treated as one that overflows it.
ReadNewMessage_strictFit(rb, rs, data, k) ==
    IF Len(data) < k
    THEN [n |-> Len(data), out |-> data, rb |-> rb, rs |-> rs]
    ELSE [n |-> k, out |-> Take(data, k), rb |-> rb \o Drop(data, k),
          rs |-> Reading(Len(data), k)]

\* Mutant: the bytes that did not fit are not kept.
ReadNewMessage_dropsRemainder(rb, rs, data, k) ==
    IF Len(data) <= k
    THEN [n |-> Len(data), out |-> data, rb |-> rb, rs |-> rs]
    ELSE [n |-> k, out |-> Take(data, k), rb |-> rb, rs |-> Reading(Len(data), k)]

\* read_new_message: what read does with the session's message `data` and a
\* buffer of k bytes: [n, out, rb, rs].
ReadNewMessage(rb, rs, data, k) ==
    IF Len(data) <= k
    THEN [n |-> Len(data), out |-> data, rb |-> rb, rs |-> rs]
    ELSE [n |-> k, out |-> Take(data, k), rb |-> rb \o Drop(data, k),
          rs |-> Reading(Len(data), k)]

\* Mutant: read is not advanced by the bytes handed out.
ReadBuffered_staleRead(rb, rs, k) ==
    IF rb # <<>>
    THEN LET len == Min(Len(rb), k)
             new_read == rs.read
         IN  [n |-> len, out |-> Take(rb, len), rb |-> Drop(rb, len),
              rs |-> IF new_read = rs.total THEN Idle
                     ELSE Reading(rs.total, new_read)]
    ELSE [n |-> 0, out |-> <<>>, rb |-> rb, rs |-> Idle]

\* Mutant: the bytes are taken from the back of the overflow buffer.
ReadBuffered_fromBack(rb, rs, k) ==
    IF rb # <<>>
    THEN LET len == Min(Len(rb), k)
             new_read == rs.read + len
         IN  [n |-> len, out |-> Drop(rb, Len(rb) - len), rb |-> Take(rb, Len(rb) - len),
              rs |-> IF new_read = rs.total THEN Idle
                     ELSE Reading(rs.total, new_read)]
    ELSE [n |-> 0, out |-> <<>>, rb |-> rb, rs |-> Idle]

\* Mutant: the state stays Reading when the last byte has been handed out.
ReadBuffered_neverIdle(rb, rs, k) ==
    IF rb # <<>>
    THEN LET len == Min(Len(rb), k)
             new_read == rs.read + len
         IN  [n |-> len, out |-> Take(rb, len), rb |-> Drop(rb, len),
              rs |-> Reading(rs.total, new_read)]
    ELSE [n |-> 0, out |-> <<>>, rb |-> rb, rs |-> Idle]

\* read in state Reading{total, read}.
ReadBuffered(rb, rs, k) ==
    IF rb # <<>>
    THEN LET len == Min(Len(rb), k)
             new_read == rs.read + len
         IN  [n |-> len, out |-> Take(rb, len), rb |-> Drop(rb, len),
              rs |-> IF new_read = rs.total THEN Idle
                     ELSE Reading(rs.total, new_read)]
    ELSE [n |-> 0, out |-> <<>>, rb |-> rb, rs |-> Idle]

\* Mutant: the guard is missing.
NotConnected_missing(c) == FALSE

\* Mutant: the guard refuses every call.
NotConnected_always(c) == TRUE

\* The guard that opens send, recv, read and write: if !self.connected { return Err(NotConnected) }
NotConnected(c) == ~c

\* Mutant: disconnect never refuses.
DisconnectRefusal_never(rb, rs) == -1

\* disconnect's guard: the unread byte count it refuses with, or -1 to go on.
DisconnectRefusal(rb, rs) ==
    IF rb # <<>> THEN Len(rb) ELSE -1

----------------------------------------------------------------------------
\* Initial state: VirgeClient::new(config), or VirgeServer::new(trans, conn) with
\* conn = true over a handler initialised from the accepted socket, or with
\* conn = false over a fresh handler.

NoCur == [active |-> FALSE, msg |-> <<>>, got |-> <<>>, reads |-> 0, k |-> 0,
          sameK |-> TRUE]
NoRec == [phase |-> "none", want |-> <<>>, got |-> <<>>]

\* The threads that use the yamux handler: the thread that calls its methods and
\* the driver thread that start_driver spawns.
Threads == {"caller", "driver"}

\* No thread is inside the handler, nothing was built or opened.
ThreadsAtRest ==
    /\ pc = "idle" /\ call = "none" /\ drv = "none" /\ lock = "none"
    /\ TOKIO_RUNTIME = "uninit" /\ created = 0
    /\ rt = [t \in Threads |-> "none"]
    /\ vsock = "none" /\ peerStream = "none" /\ nopened = 0 /\ ncalls = 0
    /\ unflushed = FALSE
    /\ extraStream = "none" /\ staleStream = FALSE /\ orphans = 0
    /\ afterDriverEnd = FALSE

\* The history of a message ends with the step after the read that drained it.
CurKeep == cur' = IF no_has_data(read_buffer, read_state) THEN NoCur ELSE cur

\* The history of a refused disconnect ends with the step after the disconnect
\* that follows the draining reads.
RecKeep == rec' = IF rec.phase = "recovered" THEN NoRec ELSE rec

Init ==
    /\ variant \in {"framed", "mux"}
    /\ role \in {"client", "server"}
    /\ connected \in (IF role = "client" THEN {FALSE} ELSE BOOLEAN)
    /\ read_buffer = <<>>
    /\ read_state = Idle
    /\ stream = (connected /\ variant = "framed")
    /\ transport = (connected /\ variant = "framed")
    /\ yamux_stream = (connected /\ variant = "mux")
    /\ connection = (connected /\ variant = "mux")
    /\ driver_handle = (connected /\ variant = "mux")
    /\ driver_stop_flag = FALSE
    /\ inbound = <<>> /\ inClosed = FALSE /\ inBroken = FALSE
    /\ outbound = <<>> /\ outClosed = FALSE /\ outBroken = FALSE
    /\ sentLog = <<>> /\ rcvLog = <<>> /\ outLog = <<>> /\ peerRcvLog = <<>>
    /\ nsent = 0 /\ nrecv = 0
    /\ cur = NoCur
    /\ rec = NoRec
    /\ phase = (IF connected THEN "up" ELSE "new")
    /\ last = Res("init", "Ok", 0, <<>>, FALSE)
    /\ ThreadsAtRest

\* A new socket: both directions empty and open, the histories of the session begin.
NewLink ==
    /\ inbound' = <<>> /\ inClosed' = FALSE /\ inBroken' = FALSE
    /\ outbound' = <<>> /\ outClosed' = FALSE /\ outBroken' = FALSE
    /\ sentLog' = <<>> /\ rcvLog' = <<>> /\ outLog' = <<>> /\ peerRcvLog' = <<>>

----------------------------------------------------------------------------
\* connect (VirgeClient only): transport_handler.connect(...)?; connected = true.

\* XTransportHandler::connect: VsockStream::connect or try_clone may fail, and then
\* nothing is assigned.
ConnectFramed ==
    /\ role = "client" /\ variant = "framed"
    /\ \E ok \in BOOLEAN :
        IF ok
        THEN /\ stream' = TRUE /\ transport' = TRUE
             /\ connected' = TRUE
             /\ phase' = "up"
             /\ NewLink
             /\ last' = Res("connect", "Ok", 0, <<>>, TRUE)
        ELSE /\ UNCHANGED <<stream, transport, connected, phase, inVars, outVars, logVars>>
             /\ last' = Res("connect", "ConnectionRefused", 0, <<>>, TRUE)
    /\ UNCHANGED <<variant, role, read_buffer, read_state, muxVars, countVars>>
    /\ CurKeep
    /\ RecKeep
    /\ UNCHANGED threadVars


\* YamuxTransportHandler::connect: the socket, then connection = Some, start_driver,
\* get_or_create_stream (which returns the stream the handler already holds, if any).
ConnectMux ==
    /\ role = "client" /\ variant = "mux"
    /\ \E sock \in BOOLEAN, opened \in BOOLEAN :
        IF ~sock
        THEN /\ UNCHANGED <<muxVars, connected, phase, inVars, outVars, logVars>>
             /\ last' = Res("connect", "ConnectionRefused", 0, <<>>, TRUE)
        ELSE /\ connection' = TRUE
             /\ driver_handle' = TRUE
             /\ UNCHANGED driver_stop_flag
             /\ IF yamux_stream
                THEN /\ UNCHANGED <<yamux_stream, inVars, outVars, logVars>>
                     /\ connected' = TRUE /\ phase' = "up"
                     /\ last' = Res("connect", "Ok", 0, <<>>, TRUE)
                ELSE IF opened
                THEN /\ yamux_stream' = TRUE
                     /\ NewLink
                     /\ connected' = TRUE /\ phase' = "up"
                     /\ last' = Res("connect", "Ok", 0, <<>>, TRUE)
                ELSE /\ UNCHANGED <<yamux_stream, connected, phase, inVars, outVars,
                                    logVars>>
                     /\ last' = Res("connect", "InvalidData", 0, <<>>, TRUE)
    /\ UNCHANGED <<variant, role, read_buffer, read_state, xVars, countVars>>
    /\ CurKeep
    /\ RecKeep
    /\ UNCHANGED threadVars


----------------------------------------------------------------------------
\* disconnect

\* XTransportHandler::disconnect: transport = None, then shutdown(Both) of the
\* socket if there is one; a failed shutdown is returned.  stream stays Some.
\* YamuxTransportHandler::disconnect: stop flag, join, connection = None,
\* yamux_stream = None; always Ok.
SessionDisconnect(okShutdown) ==
    IF variant = "framed"
    THEN /\ transport' = FALSE
         /\ UNCHANGED <<stream, muxVars>>
         /\ outClosed' = (outClosed \/ (stream /\ okShutdown))
    ELSE /\ driver_stop_flag' = TRUE
         /\ driver_handle' = FALSE
         /\ connection' = FALSE
         /\ yamux_stream' = FALSE
         /\ UNCHANGED xVars
         /\ outClosed' = (outClosed \/ yamux_stream)

SessionDisconnectOk_swallows(okShutdown) == TRUE

SessionDisconnectOk(okShutdown) ==
    variant = "mux" \/ ~stream \/ okShutdown

\* The history of the disconnect that follows the draining reads.
RecAfterDisconnect ==
    IF rec.phase = "drained" THEN [rec EXCEPT !.phase = "recovered"] ELSE NoRec

\* The facade's disconnect.  VirgeServer over yamux calls the session only if
\* connected; the other three facades call it unconditionally.
Disconnect ==
    /\ LET refusal == DisconnectRefusal(read_buffer, read_state) IN
       IF refusal >= 0
       THEN /\ last' = Res("disconnect", "Refused", refusal, <<>>, FALSE)
            /\ rec' = [phase |-> "draining", want |-> read_buffer, got |-> <<>>]
            /\ UNCHANGED <<connected, phase, xVars, muxVars, outClosed>>
       ELSE IF role = "server" /\ variant = "mux" /\ ~connected
       THEN /\ last' = Res("disconnect", "Ok", 0, <<>>, FALSE)
            /\ rec' = RecAfterDisconnect
            /\ UNCHANGED <<connected, phase, xVars, muxVars, outClosed>>
       ELSE \E okShutdown \in BOOLEAN :
            /\ SessionDisconnect(okShutdown)
            /\ rec' = RecAfterDisconnect
            /\ IF SessionDisconnectOk(okShutdown)
               THEN /\ connected' = FALSE
                    /\ phase' = IF connected THEN "down" ELSE phase
                    /\ last' = Res("disconnect", "Ok", 0, <<>>, TRUE)
               ELSE /\ UNCHANGED <<connected, phase>>
                    /\ last' = Res("disconnect", "ConnectionRefused", 0, <<>>, TRUE)
    /\ UNCHANGED <<variant, role, read_buffer, read_state, inVars, outbound, outBroken,
                   logVars, countVars>>
    /\ CurKeep
    /\ UNCHANGED threadVars


----------------------------------------------------------------------------
\* send(data) and write(buf): the not-connected guard, then one
\* transport_handler.send; the handler's error becomes ErrorKind::Other.

FacadeSend(op, n) ==
    LET data == Payload(Len(Flatten(outLog)), n) IN
    IF NotConnected(connected)
    THEN /\ last' = Res(op, "NotConnected", 0, <<>>, FALSE)
         /\ UNCHANGED <<outVars, outLog, nsent>>
    ELSE \E h \in HandlerSend(variant, transport, LocalIsConnected, outBroken, data) :
         /\ h.put # <<>> \/ h.res.ok => nsent < MaxMsgs
         /\ nsent' = IF h.put # <<>> \/ h.res.ok THEN nsent + 1 ELSE nsent
         /\ outbound' = Transmit(outbound, h.put)
         /\ outBroken' = h.broken
         /\ UNCHANGED outClosed
         /\ outLog' = IF h.res.ok THEN Append(outLog, data) ELSE outLog
         /\ last' = Res(op, IF h.res.ok THEN "Ok" ELSE "Other", h.res.n,
                        IF h.res.ok THEN data ELSE <<>>, TRUE)

Send(n) ==
    /\ FacadeSend("send", n)
    /\ UNCHANGED <<variant, role, facadeVars, xVars, muxVars, inVars, sentLog, rcvLog,
                   peerRcvLog, nrecv, phase>>
    /\ CurKeep
    /\ RecKeep
    /\ UNCHANGED threadVars


Write(n) ==
    /\ FacadeSend("write", n)
    /\ UNCHANGED <<variant, role, facadeVars, xVars, muxVars, inVars, sentLog, rcvLog,
                   peerRcvLog, nrecv, phase>>
    /\ CurKeep
    /\ RecKeep
    /\ UNCHANGED threadVars


\* flush() is `Ok(())` in every facade: no guard, no session call.
Flush ==
    /\ last' = Res("flush", "Ok", 0, <<>>, FALSE)
    /\ UNCHANGED <<variant, role, facadeVars, xVars, muxVars, inVars, outVars, logVars,
                   countVars, phase>>
    /\ CurKeep
    /\ RecKeep
    /\ UNCHANGED threadVars

\* recv(): the not-connected guard, then one transport_handler.recv.
Recv ==
    /\ IF NotConnected(connected)
       THEN /\ last' = Res("recv", "NotConnected", 0, <<>>, FALSE)
            /\ UNCHANGED <<inbound, rcvLog, nrecv>>
       ELSE \E h \in HandlerRecv(variant, transport, LocalIsConnected, inbound, inClosed) :
            /\ h.res.ok => nrecv < MaxRecvs
            /\ nrecv' = IF h.res.ok THEN nrecv + 1 ELSE nrecv
            /\ inbound' = h.rest
            /\ rcvLog' = IF h.res.ok THEN Append(rcvLog, h.res.data) ELSE rcvLog
            /\ last' = Res("recv", IF h.res.ok THEN "Ok" ELSE "Other",
                           Len(h.res.data), h.res.data, TRUE)
    /\ UNCHANGED <<variant, role, facadeVars, xVars, muxVars, inClosed, inBroken, outVars,
                   sentLog, outLog, peerRcvLog, nsent, phase>>
    /\ CurKeep
    /\ RecKeep
    /\ UNCHANGED threadVars


----------------------------------------------------------------------------
\* read(buf) with a buffer of k bytes.

\* The history of the reads that follow a refused disconnect.
RecAfterRead(out, rb) ==
    IF rec.phase = "draining"
    THEN [rec EXCEPT !.got = @ \o out,
                     !.phase = IF rb = <<>> THEN "drained" ELSE "draining"]
    ELSE NoRec

ReadNotConnected(k) ==
    /\ NotConnected(connected)
    /\ last' = Res("read", "NotConnected", 0, <<>>, FALSE)
    /\ CurKeep
    /\ RecKeep
    /\ UNCHANGED <<read_buffer, read_state, inbound, rcvLog, nrecv>>

ReadIdle(k) ==
    /\ ~NotConnected(connected)
    /\ read_state.tag = "Idle"
    /\ \E h \in HandlerRecv(variant, transport, LocalIsConnected, inbound, inClosed) :
        /\ h.res.ok => nrecv < MaxRecvs
        /\ nrecv' = IF h.res.ok THEN nrecv + 1 ELSE nrecv
        /\ inbound' = h.rest
        /\ IF h.res.ok
           THEN LET r == ReadNewMessage(read_buffer, read_state, h.res.data, k) IN
                /\ read_buffer' = r.rb
                /\ read_state' = r.rs
                /\ rcvLog' = Append(rcvLog, h.res.data)
                /\ cur' = [active |-> TRUE, msg |-> h.res.data, got |-> r.out,
                           reads |-> IF k >= 1 THEN 1 ELSE 0, k |-> k, sameK |-> TRUE]
                /\ rec' = NoRec
                /\ last' = Res("read", "Ok", r.n, r.out, TRUE)
           ELSE /\ CurKeep
                /\ RecKeep
                /\ UNCHANGED <<read_buffer, read_state, rcvLog>>
                /\ last' = Res("read", "Other", 0, <<>>, TRUE)

ReadReading(k) ==
    /\ ~NotConnected(connected)
    /\ read_state.tag = "Reading"
    /\ LET r == ReadBuffered(read_buffer, read_state, k) IN
        /\ read_buffer' = r.rb
        /\ read_state' = r.rs
        /\ cur' = [cur EXCEPT !.got = @ \o r.out,
                              !.sameK = @ /\ k = cur.k,
                              !.k = IF cur.sameK /\ k = cur.k THEN @ ELSE 0,
                              !.reads = IF cur.sameK /\ k = cur.k /\ k >= 1
                                        THEN @ + 1 ELSE 0]
        /\ rec' = RecAfterRead(r.out, r.rb)
        /\ last' = Res("read", "Ok", r.n, r.out, FALSE)
    /\ UNCHANGED <<inbound, rcvLog, nrecv>>

Read(k) ==
    /\ \/ ReadNotConnected(k)
       \/ ReadIdle(k)
       \/ ReadReading(k)
    /\ UNCHANGED <<variant, role, connected, xVars, muxVars, inClosed, inBroken, outVars,
                   sentLog, outLog, peerRcvLog, nsent, phase>>
    /\ UNCHANGED threadVars


----------------------------------------------------------------------------
\* The peer: a session of the same variant on the other end of the socket.

\* The local end holds the stream the peer writes to and reads from.
LinkUp ==
    IF variant = "framed" THEN stream /\ ~outClosed ELSE yamux_stream

\* The peer's session sends a payload of n bytes.
PeerSend(n) ==
    /\ LinkUp /\ ~inClosed
    /\ nsent < MaxMsgs
    /\ nsent' = nsent + 1
    /\ LET data == Payload(Len(Flatten(sentLog)), n) IN
       \E h \in HandlerSend(variant, TRUE, TRUE, inBroken, data) :
        /\ inbound' = Transmit(inbound, h.put)
        /\ inBroken' = h.broken
        /\ sentLog' = IF h.res.ok THEN Append(sentLog, data) ELSE sentLog
        /\ last' = Res("peer_send", IF h.res.ok THEN "Ok" ELSE "Other", h.res.n,
                       IF h.res.ok THEN data ELSE <<>>, TRUE)
    /\ UNCHANGED <<variant, role, facadeVars, xVars, muxVars, inClosed, outVars, rcvLog,
                   outLog, peerRcvLog, nrecv, phase>>
    /\ CurKeep
    /\ RecKeep
    /\ UNCHANGED threadVars


\* The peer's session receives.
PeerRecv ==
    /\ nrecv < MaxRecvs
    /\ nrecv' = nrecv + 1
    /\ \E h \in HandlerRecv(variant, TRUE, TRUE, outbound, outClosed) :
        /\ h.res.ok
        /\ outbound' = h.rest
        /\ peerRcvLog' = Append(peerRcvLog, h.res.data)
        /\ last' = Res("peer_recv", "Ok", Len(h.res.data), h.res.data, TRUE)
    /\ UNCHANGED <<variant, role, facadeVars, xVars, muxVars, inVars, outClosed, outBroken,
                   sentLog, rcvLog, outLog, nsent, phase>>
    /\ CurKeep
    /\ RecKeep
    /\ UNCHANGED threadVars


\* The peer disconnects: its sending side is closed.
PeerClose ==
    /\ LinkUp /\ ~inClosed
    /\ inClosed' = TRUE
    /\ last' = Res("peer_close", "Ok", 0, <<>>, TRUE)
    /\ UNCHANGED <<variant, role, facadeVars, xVars, muxVars, inbound, inBroken, outVars,
                   logVars, countVars, phase>>
    /\ CurKeep
    /\ RecKeep
    /\ UNCHANGED threadVars


----------------------------------------------------------------------------
Next ==
    \/ ConnectFramed
    \/ ConnectMux
    \/ Disconnect
    \/ \E n \in 0..MaxLen : Send(n)
    \/ \E n \in 0..MaxLen : Write(n)
    \/ Flush
    \/ Recv
    \/ \E k \in 0..MaxBuf : Read(k)
    \/ \E n \in 0..MaxLen : PeerSend(n)
    \/ PeerRecv
    \/ PeerClose

Spec == Init /\ [][Next]_vars

----------------------------------------------------------------------------
\* YamuxTransportHandler step by step: the calling thread, the driver thread that
\* start_driver spawns, the tokio Mutex around the Connection and the OnceLock that
\* holds the tokio Runtime.

MaxCalls == 3

FacadeFrame ==
    UNCHANGED <<variant, role, facadeVars, xVars, inVars, outbound, outBroken, logVars,
                countVars, cur, rec, phase>>

\* The step does not write to the stream, close it or drop it.
StreamFrame == UNCHANGED <<outClosed, unflushed>>

\* The places where a thread calls get_tokio_runtime().block_on(..).
AtBlockOn(t) ==
    IF t = "caller" THEN pc \in {"connect_sock", "goc_lock", "send_io", "recv_io"}
    ELSE drv = "lock"

\* OnceLock::get_or_init with a racing check: a thread that finds the cell being
\* initialized by another thread initializes it as well.
OnceLockGetOrInit_racy(cell) ==
    IF cell = "ready" THEN "get" ELSE "init"

\* OnceLock::get_or_init: the first thread runs the closure, a thread that arrives
\* meanwhile waits for it, later threads get the value.
OnceLockGetOrInit(cell) ==
    IF cell = "ready" THEN "get" ELSE IF cell = "uninit" THEN "init" ELSE "wait"

\* get_tokio_runtime(): TOKIO_RUNTIME.get_or_init(..)
GetRuntime(t) ==
    /\ AtBlockOn(t) /\ rt[t] = "none"
    /\ LET o == OnceLockGetOrInit(TOKIO_RUNTIME) IN
        /\ o # "wait"
        /\ IF o = "init"
           THEN /\ TOKIO_RUNTIME' = "running"
                /\ rt' = [rt EXCEPT ![t] = "init"]
           ELSE /\ rt' = [rt EXCEPT ![t] = "have"]
                /\ UNCHANGED TOKIO_RUNTIME
    /\ last' = Res("get_tokio_runtime", "Ok", 0, <<>>, TRUE)
    /\ UNCHANGED <<muxVars, pc, call, drv, lock, created, vsock, peerStream, nopened,
                   ncalls>>
    /\ FacadeFrame
    /\ UNCHANGED <<extraStream, staleStream, orphans, afterDriverEnd>>
    /\ StreamFrame

\* The closure of get_or_init: Runtime::new().expect(..).  A failure panics the
\* thread and leaves the cell uninitialized.
BuildRuntime(t) ==
    /\ rt[t] = "init"
    /\ \E ok \in BOOLEAN :
        IF ok
        THEN /\ TOKIO_RUNTIME' = "ready"
             /\ created' = created + 1
             /\ rt' = [rt EXCEPT ![t] = "have"]
             /\ UNCHANGED <<pc, drv>>
             /\ last' = Res("get_tokio_runtime", "Ok", 0, <<>>, TRUE)
        ELSE /\ TOKIO_RUNTIME' = "uninit"
             /\ rt' = [rt EXCEPT ![t] = "none"]
             /\ pc' = IF t = "caller" THEN "panicked" ELSE pc
             /\ drv' = IF t = "driver" THEN "stopped" ELSE drv
             /\ UNCHANGED created
             /\ last' = Res("get_tokio_runtime", "Panic", 0, <<>>, TRUE)
    /\ UNCHANGED <<muxVars, call, lock, vsock, peerStream, nopened, ncalls>>
    /\ FacadeFrame
    /\ UNCHANGED <<extraStream, staleStream, orphans, afterDriverEnd>>
    /\ StreamFrame

\* The tokio Mutex is fair: a released lock goes to the thread that waits for it.
CallerWaits == pc = "goc_lock" /\ rt["caller"] = "have"
DriverWaits == drv = "lock" /\ rt["driver"] = "have"
Release(t) ==
    IF t = "driver" /\ CallerWaits THEN "caller"
    ELSE IF t = "caller" /\ DriverWaits THEN "driver"
    ELSE "none"

\* A handler method returns `res` to the calling thread.
Return(res) ==
    /\ pc' = "idle"
    /\ call' = "none"
    /\ last' = Res(call, res, 0, <<>>, TRUE)

\* A method is called on a handler no thread is in.  from_tokio_stream
\* (Mode::Server) is called on a handler that holds no connection and has no
\* running driver; connect (Mode::Client) is called in any state of the handler,
\* a connected one included.
CanCall == pc = "idle" /\ ncalls < MaxCalls
Fresh == ~connection /\ drv \in {"none", "stopped"}

\* The positions of a driver thread that has not ended.
Running == {"check", "lock", "poll"}

\* connect: block_on(VsockStream::connect(..)) comes first.
CallConnect ==
    /\ CanCall /\ role = "client"
    /\ pc' = "connect_sock" /\ call' = "connect"
    /\ ncalls' = ncalls + 1
    /\ last' = Res("connect", "Called", 0, <<>>, TRUE)
    /\ UNCHANGED <<muxVars, drv, lock, TOKIO_RUNTIME, created, rt, vsock, peerStream,
                   nopened>>
    /\ FacadeFrame
    /\ UNCHANGED <<extraStream, staleStream, orphans, afterDriverEnd>>
    /\ StreamFrame

ConnectSock ==
    /\ pc = "connect_sock" /\ rt["caller"] = "have"
    /\ rt' = [rt EXCEPT !["caller"] = "none"]
    /\ \E ok \in BOOLEAN :
        IF ok
        THEN /\ pc' = "start_driver"
             /\ last' = Res("connect", "Socket", 0, <<>>, TRUE)
             /\ UNCHANGED call
        ELSE /\ Return("ConnectionError")
    /\ UNCHANGED <<muxVars, drv, lock, TOKIO_RUNTIME, created, vsock, peerStream,
                   nopened, ncalls>>
    /\ FacadeFrame
    /\ UNCHANGED <<extraStream, staleStream, orphans, afterDriverEnd>>
    /\ StreamFrame

\* from_tokio_stream: the accepted socket is given.
CallFromTokioStream ==
    /\ CanCall /\ role = "server" /\ Fresh
    /\ pc' = "start_driver" /\ call' = "from_tokio_stream"
    /\ ncalls' = ncalls + 1
    /\ last' = Res("from_tokio_stream", "Called", 0, <<>>, TRUE)
    /\ UNCHANGED <<muxVars, drv, lock, TOKIO_RUNTIME, created, rt, vsock, peerStream,
                   nopened>>
    /\ FacadeFrame
    /\ UNCHANGED <<extraStream, staleStream, orphans, afterDriverEnd>>
    /\ StreamFrame

\* self.connection = Some(..) over the new socket; let _ = self.start_driver():
\* the driver thread is spawned and its handle stored before
\* get_or_create_stream is called.  A connection the handler held is replaced,
\* with its Mutex; a stream the handler holds stays, on the replaced
\* connection.  self.driver_handle = Some(..) overwrites the handle of a driver
\* that is still running: that thread goes on with its clone of the replaced
\* connection and nothing can join it any more.
StartDriver ==
    /\ pc = "start_driver"
    /\ connection' = TRUE
    /\ vsock' = "open" /\ peerStream' = "none" /\ extraStream' = "none"
    /\ nopened' = IF yamux_stream THEN nopened ELSE 0
    /\ staleStream' = yamux_stream
    /\ orphans' = IF drv \in Running THEN orphans + 1 ELSE orphans
    /\ drv' = "check"
    /\ driver_handle' = TRUE
    /\ lock' = "none"
    /\ rt' = [rt EXCEPT !["driver"] = "none"]
    /\ pc' = "goc"
    /\ last' = Res(call, "DriverStarted", 0, <<>>, TRUE)
    /\ UNCHANGED <<yamux_stream, driver_stop_flag, call, TOKIO_RUNTIME, created, ncalls>>
    /\ FacadeFrame
    /\ UNCHANGED <<afterDriverEnd>>
    /\ StreamFrame

\* get_or_create_stream opens or accepts a stream, whatever the handler holds.
NeedsNewStream_always(ys) == TRUE

\* get_or_create_stream: if self.yamux_stream.is_some() { return it }
NeedsNewStream(ys) == ~ys

\* Where a method goes on once get_or_create_stream has returned the stream.
AfterStream ==
    IF call = "send" THEN "send_io" ELSE IF call = "recv" THEN "recv_io" ELSE "idle"

\* get_or_create_stream up to the block_on.
GetOrCreateStream ==
    /\ pc = "goc"
    /\ IF ~NeedsNewStream(yamux_stream)
       THEN IF AfterStream = "idle"
            THEN Return("Ok")
            ELSE /\ pc' = AfterStream
                 /\ last' = Res(call, "Stream", 0, <<>>, TRUE)
                 /\ UNCHANGED call
       ELSE IF ~connection
       THEN Return("TransportError")
       ELSE /\ pc' = "goc_lock"
            /\ last' = Res(call, "Locking", 0, <<>>, TRUE)
            /\ UNCHANGED call
    /\ UNCHANGED <<muxVars, drv, lock, TOKIO_RUNTIME, created, rt, vsock, peerStream,
                   nopened, ncalls>>
    /\ FacadeFrame
    /\ UNCHANGED <<extraStream, staleStream, orphans, afterDriverEnd>>
    /\ StreamFrame

\* conn_clone.lock().await inside the block_on of get_or_create_stream.
StreamLock ==
    /\ pc = "goc_lock" /\ rt["caller"] = "have"
    /\ lock \in {"none", "caller"}
    /\ lock' = "caller"
    /\ pc' = "goc_poll"
    /\ last' = Res(call, "Locked", 0, <<>>, TRUE)
    /\ UNCHANGED <<muxVars, call, drv, TOKIO_RUNTIME, created, rt, vsock, peerStream,
                   nopened, ncalls>>
    /\ FacadeFrame
    /\ UNCHANGED <<extraStream, staleStream, orphans, afterDriverEnd>>
    /\ StreamFrame

\* Mode::Client: poll_new_outbound, which does not wait for the peer.
\* Mode::Server: poll_next_inbound, which waits until the peer's stream has
\* arrived or the connection has ended.  The guard is dropped with the block_on.
StreamPoll ==
    /\ pc = "goc_poll"
    /\ role = "server" => peerStream = "pending" \/ vsock # "open"
    /\ LET got == IF role = "client" THEN vsock = "open" ELSE peerStream = "pending" IN
        /\ yamux_stream' = (yamux_stream \/ got)
        /\ nopened' = IF got THEN nopened + 1 ELSE nopened
        /\ peerStream' = IF got /\ role = "server" THEN "session" ELSE peerStream
        /\ IF got
           THEN IF AfterStream = "idle"
                THEN Return("Ok")
                ELSE /\ pc' = AfterStream
                     /\ last' = Res(call, "Stream", 0, <<>>, TRUE)
                     /\ UNCHANGED call
           ELSE Return("TransportError")
        /\ outClosed' = (outClosed /\ ~got)
        /\ unflushed' = (unflushed /\ ~got)
    /\ lock' = Release("caller")
    /\ rt' = [rt EXCEPT !["caller"] = "none"]
    /\ UNCHANGED <<connection, driver_handle, driver_stop_flag, drv, TOKIO_RUNTIME,
                   created, vsock, ncalls>>
    /\ FacadeFrame
    /\ UNCHANGED <<extraStream, staleStream, orphans, afterDriverEnd>>

\* send / recv: the is_connected() check, get_or_create_stream, then one block_on.
CallData(op) ==
    /\ CanCall
    /\ ncalls' = ncalls + 1
    /\ IF ~YamuxIsConnected(yamux_stream, connection)
       THEN /\ last' = Res(op, "TransportError", 0, <<>>, TRUE)
            /\ UNCHANGED <<pc, call>>
       ELSE /\ pc' = "goc" /\ call' = op
            /\ last' = Res(op, "Called", 0, <<>>, TRUE)
    /\ afterDriverEnd' = (last.op = "driver" /\ last.res = "Ended")
    /\ UNCHANGED <<muxVars, drv, lock, TOKIO_RUNTIME, created, rt, vsock, peerStream,
                   nopened>>
    /\ FacadeFrame
    /\ UNCHANGED <<extraStream, staleStream, orphans>>
    /\ StreamFrame

CallSend == CallData("send")
CallRecv == CallData("recv")

\* AsyncWrite: bytes a write has accepted may stay in the writer until a flush.
WriteAllHolds == BOOLEAN

\* The state of the socket under the stream the handler holds: the socket of
\* its connection, or, for a stream of a replaced connection, whatever the
\* peer of that connection has made of it.
StreamSockStates ==
    IF staleStream THEN {"open", "closed", "failed"} ELSE {vsock}

\* stream.write_all(&data).await, then Ok(data.len()): no flush, no close.
SendIo ==
    /\ pc = "send_io" /\ rt["caller"] = "have"
    /\ rt' = [rt EXCEPT !["caller"] = "none"]
    /\ \E up \in StreamSockStates :
        IF up = "open" /\ ~outClosed
        THEN /\ Return("Ok")
             /\ \E held \in WriteAllHolds : unflushed' = (unflushed \/ held)
        ELSE /\ Return("Other")
             /\ UNCHANGED unflushed
    /\ UNCHANGED outClosed
    /\ UNCHANGED <<muxVars, drv, lock, TOKIO_RUNTIME, created, vsock, peerStream, nopened,
                   ncalls>>
    /\ FacadeFrame
    /\ UNCHANGED <<extraStream, staleStream, orphans, afterDriverEnd>>

\* stream.read_to_end(&mut buf).await: returns at the end of the stream.
RecvIo ==
    /\ pc = "recv_io" /\ rt["caller"] = "have"
    /\ rt' = [rt EXCEPT !["caller"] = "none"]
    /\ \E end \in StreamSockStates :
        /\ end # "open"
        /\ Return(IF end = "closed" THEN "Ok" ELSE "Other")
    /\ UNCHANGED <<muxVars, drv, lock, TOKIO_RUNTIME, created, vsock, peerStream, nopened,
                   ncalls>>
    /\ FacadeFrame
    /\ UNCHANGED <<extraStream, staleStream, orphans, afterDriverEnd>>
    /\ StreamFrame

\* disconnect: store the stop flag, take the handle.
CallDisconnect ==
    /\ CanCall
    /\ ncalls' = ncalls + 1
    /\ driver_stop_flag' = TRUE
    /\ driver_handle' = FALSE
    /\ pc' = IF driver_handle THEN "d_join" ELSE "d_clean"
    /\ call' = "disconnect"
    /\ last' = Res("disconnect", "Called", 0, <<>>, TRUE)
    /\ UNCHANGED <<yamux_stream, connection, drv, lock, TOKIO_RUNTIME, created, rt, vsock,
                   peerStream, nopened>>
    /\ FacadeFrame
    /\ UNCHANGED <<extraStream, staleStream, orphans, afterDriverEnd>>
    /\ StreamFrame

\* handle.join(): returns when the driver thread has ended.
DisconnectJoin ==
    /\ pc = "d_join"
    /\ drv = "stopped"
    /\ pc' = "d_clean"
    /\ last' = Res("disconnect", "Joined", 0, <<>>, TRUE)
    /\ UNCHANGED <<muxVars, call, drv, lock, TOKIO_RUNTIME, created, rt, vsock, peerStream,
                   nopened, ncalls>>
    /\ FacadeFrame
    /\ UNCHANGED <<extraStream, staleStream, orphans, afterDriverEnd>>
    /\ StreamFrame

\* self.connection = None; self.yamux_stream = None; Ok(())
DisconnectClean ==
    /\ pc = "d_clean"
    /\ connection' = FALSE
    /\ yamux_stream' = FALSE
    /\ vsock' = IF vsock = "open" THEN "closed" ELSE vsock
    /\ outClosed' = (outClosed \/ yamux_stream)
    /\ unflushed' = FALSE
    /\ staleStream' = FALSE
    /\ Return("Ok")
    /\ UNCHANGED <<driver_handle, driver_stop_flag, drv, lock, TOKIO_RUNTIME, created, rt,
                   peerStream, nopened, ncalls>>
    /\ FacadeFrame
    /\ UNCHANGED <<extraStream, orphans, afterDriverEnd>>

\* The driver loop: if stop_flag_clone.load(..) { break }
DriverCheck ==
    /\ drv = "check"
    /\ drv' = IF driver_stop_flag THEN "stopped" ELSE "lock"
    /\ last' = Res("driver", IF driver_stop_flag THEN "Stopped" ELSE "Loop", 0, <<>>, TRUE)
    /\ UNCHANGED <<muxVars, pc, call, lock, TOKIO_RUNTIME, created, rt, vsock, peerStream,
                   nopened, ncalls>>
    /\ FacadeFrame
    /\ UNCHANGED <<extraStream, staleStream, orphans, afterDriverEnd>>
    /\ StreamFrame

\* conn_clone.lock().await in the driver's block_on.
DriverLock ==
    /\ drv = "lock" /\ rt["driver"] = "have"
    /\ lock \in {"none", "driver"}
    /\ lock' = "driver"
    /\ drv' = "poll"
    /\ last' = Res("driver", "Locked", 0, <<>>, TRUE)
    /\ UNCHANGED <<muxVars, pc, call, TOKIO_RUNTIME, created, rt, vsock, peerStream,
                   nopened, ncalls>>
    /\ FacadeFrame
    /\ UNCHANGED <<extraStream, staleStream, orphans, afterDriverEnd>>
    /\ StreamFrame

\* The driver leaves its loop whatever poll_next_inbound returned.
ShouldBreak_always(ev) == TRUE

\* should_break: Some(Ok(_)) => false, Some(Err(e)) => true, None => true
ShouldBreak(ev) == ev # "inbound"

\* poll_next_inbound under the guard: Some(Ok(_)) drops the stream and loops,
\* Some(Err) and None end the thread; until one of them the driver holds the lock.
DriverPoll ==
    /\ drv = "poll"
    /\ peerStream = "pending" \/ extraStream = "pending" \/ vsock # "open"
    /\ LET ev == IF peerStream = "pending" \/ extraStream = "pending"
                 THEN "inbound" ELSE vsock
       IN  /\ peerStream' = IF peerStream = "pending" THEN "discarded" ELSE peerStream
           /\ extraStream' = IF peerStream # "pending" /\ extraStream = "pending"
                             THEN "discarded" ELSE extraStream
           /\ drv' = IF ShouldBreak(ev) THEN "stopped" ELSE "check"
           /\ last' = Res("driver", IF ev = "inbound" THEN "Inbound" ELSE "Ended",
                          0, <<>>, TRUE)
    /\ lock' = Release("driver")
    /\ rt' = [rt EXCEPT !["driver"] = "none"]
    /\ UNCHANGED <<muxVars, pc, call, TOKIO_RUNTIME, created, vsock, nopened, ncalls>>
    /\ FacadeFrame
    /\ UNCHANGED <<staleStream, orphans, afterDriverEnd>>
    /\ StreamFrame

\* The peer (a client: its connect opens its one stream) opens its stream.
PeerOpensStream ==
    /\ role = "server" /\ vsock = "open" /\ peerStream = "none"
    /\ peerStream' = "pending"
    /\ last' = Res("peer_open", "Ok", 0, <<>>, TRUE)
    /\ UNCHANGED <<muxVars, pc, call, drv, lock, TOKIO_RUNTIME, created, rt, vsock,
                   nopened, ncalls>>
    /\ FacadeFrame
    /\ UNCHANGED <<extraStream, staleStream, orphans, afterDriverEnd>>
    /\ StreamFrame

\* The peer opens a further stream on a connection whose session has its stream.
PeerOpensExtra ==
    /\ vsock = "open" /\ connection /\ yamux_stream /\ extraStream = "none"
    /\ extraStream' = "pending"
    /\ last' = Res("peer_open", "Extra", 0, <<>>, TRUE)
    /\ UNCHANGED <<muxVars, pc, call, drv, lock, TOKIO_RUNTIME, created, rt, vsock,
                   peerStream, nopened, ncalls, staleStream, orphans, afterDriverEnd>>
    /\ FacadeFrame
    /\ StreamFrame

\* A driver thread of a replaced connection ends: that connection has ended.
OrphanEnds ==
    /\ orphans > 0
    /\ orphans' = orphans - 1
    /\ last' = Res("driver", "OrphanEnded", 0, <<>>, TRUE)
    /\ UNCHANGED <<muxVars, pc, call, drv, lock, TOKIO_RUNTIME, created, rt, vsock,
                   peerStream, nopened, ncalls, extraStream, staleStream,
                   afterDriverEnd>>
    /\ FacadeFrame
    /\ StreamFrame

\* The peer closes the connection, or the socket fails.
SocketEnds ==
    /\ vsock = "open" /\ connection
    /\ \E how \in {"closed", "failed"} : vsock' = how
    /\ last' = Res("socket_ends", "Ok", 0, <<>>, TRUE)
    /\ UNCHANGED <<muxVars, pc, call, drv, lock, TOKIO_RUNTIME, created, rt, peerStream,
                   nopened, ncalls>>
    /\ FacadeFrame
    /\ UNCHANGED <<extraStream, staleStream, orphans, afterDriverEnd>>
    /\ StreamFrame

CallerStep ==
    \/ GetRuntime("caller") \/ BuildRuntime("caller")
    \/ CallConnect \/ ConnectSock \/ CallFromTokioStream \/ StartDriver
    \/ GetOrCreateStream \/ StreamLock \/ StreamPoll
    \/ CallSend \/ SendIo \/ CallRecv \/ RecvIo
    \/ CallDisconnect \/ DisconnectJoin \/ DisconnectClean

DriverStep ==
    \/ GetRuntime("driver") \/ BuildRuntime("driver")
    \/ DriverCheck \/ DriverLock \/ DriverPoll

YamuxInit == Init /\ variant = "mux" /\ ~connected

YamuxNext ==
    \/ \E t \in Threads : GetRuntime(t)
    \/ \E t \in Threads : BuildRuntime(t)
    \/ CallConnect
    \/ ConnectSock
    \/ CallFromTokioStream
    \/ StartDriver
    \/ GetOrCreateStream
    \/ StreamLock
    \/ StreamPoll
    \/ CallSend
    \/ SendIo
    \/ CallRecv
    \/ RecvIo
    \/ CallDisconnect
    \/ DisconnectJoin
    \/ DisconnectClean
    \/ DriverCheck
    \/ DriverLock
    \/ DriverPoll
    \/ PeerOpensStream
    \/ PeerOpensExtra
    \/ OrphanEnds
    \/ SocketEnds

YamuxSpec == YamuxInit /\ [][YamuxNext]_vars

----------------------------------------------------------------------------
\* YamuxTransport (yamux_impl/mod.rs): the async implementation of the Transport
\* trait over the same protocol, one action per method, with the peer on the link.

TransportFrame ==
    UNCHANGED <<variant, role, facadeVars, xVars, driver_stop_flag, cur, rec, phase,
                threadVars>>

\* get_or_create_stream as connect and from_tokio_stream call it: the stream the
\* transport holds, or a new one, or the error of the open.
TransportStream(op, opened) ==
    IF yamux_stream
    THEN /\ UNCHANGED <<yamux_stream, inVars, outVars, logVars>>
         /\ last' = Res(op, "Ok", 0, <<>>, TRUE)
    ELSE IF opened
    THEN /\ yamux_stream' = TRUE
         /\ NewLink
         /\ last' = Res(op, "Ok", 0, <<>>, TRUE)
    ELSE /\ UNCHANGED <<yamux_stream, inVars, outVars, logVars>>
         /\ last' = Res(op, "TransportError", 0, <<>>, TRUE)

\* connect: the socket, connection = Some, start_driver, get_or_create_stream.
TransportConnect ==
    /\ role = "client"
    /\ \E sock \in BOOLEAN, opened \in BOOLEAN :
        IF ~sock
        THEN /\ UNCHANGED <<yamux_stream, connection, driver_handle, inVars, outVars,
                            logVars>>
             /\ last' = Res("connect", "ConnectionError", 0, <<>>, TRUE)
        ELSE /\ connection' = TRUE
             /\ driver_handle' = TRUE
             /\ TransportStream("connect", opened)
    /\ UNCHANGED countVars
    /\ TransportFrame

\* from_tokio_stream: connection = Some, start_driver, get_or_create_stream.
TransportFromTokioStream ==
    /\ role = "server"
    /\ connection' = TRUE
    /\ driver_handle' = TRUE
    /\ \E opened \in BOOLEAN : TransportStream("from_tokio_stream", opened)
    /\ UNCHANGED countVars
    /\ TransportFrame

\* disconnect: abort the driver task, connection = None, yamux_stream = None.
TransportDisconnect ==
    /\ driver_handle' = FALSE
    /\ connection' = FALSE
    /\ yamux_stream' = FALSE
    /\ outClosed' = (outClosed \/ yamux_stream)
    /\ last' = Res("disconnect", "Ok", 0, <<>>, TRUE)
    /\ UNCHANGED <<inVars, outbound, outBroken, logVars, countVars>>
    /\ TransportFrame

\* send: the is_connected check, write_all, then stream.close().await?.
TransportSend(n) ==
    /\ LET data == Payload(Len(Flatten(outLog)), n) IN
       IF ~YamuxIsConnected(yamux_stream, connection)
       THEN /\ last' = Res("send", "TransportError", 0, <<>>, TRUE)
            /\ UNCHANGED <<outVars, outLog, nsent>>
       ELSE IF outClosed \/ outBroken
       THEN /\ last' = Res("send", "Other", 0, <<>>, TRUE)
            /\ UNCHANGED <<outVars, outLog, nsent>>
       ELSE \E w \in WriteAllOutcomes(data), closes \in BOOLEAN :
            /\ nsent < MaxMsgs
            /\ nsent' = nsent + 1
            /\ outbound' = Transmit(outbound, w.put)
            /\ IF ~w.ok
               THEN /\ outBroken' = TRUE
                    /\ UNCHANGED <<outClosed, outLog>>
                    /\ last' = Res("send", "Other", 0, <<>>, TRUE)
               ELSE IF ~closes
               THEN /\ outBroken' = TRUE
                    /\ UNCHANGED <<outClosed, outLog>>
                    /\ last' = Res("send", "IoError", 0, <<>>, TRUE)
               ELSE /\ outClosed' = TRUE
                    /\ UNCHANGED outBroken
                    /\ outLog' = Append(outLog, data)
                    /\ last' = Res("send", "Ok", 0, data, TRUE)
    /\ UNCHANGED <<yamux_stream, connection, driver_handle, inVars, sentLog, rcvLog,
                   peerRcvLog, nrecv>>
    /\ TransportFrame

\* recv: the is_connected check, then read_to_end.
TransportRecv ==
    /\ \E h \in HandlerRecv("mux", FALSE, YamuxIsConnected(yamux_stream, connection),
                            inbound, inClosed) :
        /\ h.res.ok => nrecv < MaxRecvs
        /\ nrecv' = IF h.res.ok THEN nrecv + 1 ELSE nrecv
        /\ inbound' = h.rest
        /\ rcvLog' = IF h.res.ok THEN Append(rcvLog, h.res.data) ELSE rcvLog
        /\ last' = Res("recv", h.res.kind, Len(h.res.data), h.res.data, TRUE)
    /\ UNCHANGED <<yamux_stream, connection, driver_handle, inClosed, inBroken, outVars,
                   sentLog, outLog, peerRcvLog, nsent>>
    /\ TransportFrame

TransportInit == Init /\ variant = "mux" /\ ~connected

TransportNext ==
    \/ TransportConnect
    \/ TransportFromTokioStream
    \/ TransportDisconnect
    \/ \E n \in 0..MaxLen : TransportSend(n)
    \/ TransportRecv
    \/ \E n \in 0..MaxLen : PeerSend(n)
    \/ PeerRecv
    \/ PeerClose

TransportSpec == TransportInit /\ [][TransportNext]_vars

----------------------------------------------------------------------------
\* Properties.

NoHasData == no_has_data(read_buffer, read_state)
HasPendingData == ~NoHasData
DataOps == {"send", "recv", "read", "write"}

\* C1: reading a message the session delivered, with buffers of any size, until
\* has_pending_data() is false hands out chunks whose concatenation is the message.
ChunkedReadEquivalence ==
    /\ cur.active => cur.got \o read_buffer = cur.msg
    /\ (last.op = "read" /\ last.res = "Ok" /\ NoHasData) =>
            cur.active /\ cur.got = cur.msg

ChunkedReadWitness ==
    /\ last.op = "read" /\ last.res = "Ok" /\ NoHasData
    /\ cur.reads = 2 /\ cur.k = 1 /\ Len(cur.msg) = 2 /\ cur.got = cur.msg

\* C2: Reading{total, read} holds exactly total - read bytes in the overflow
\* buffer with read < total, Idle holds none; a drained message leaves Idle.
ReadStateInvariant ==
    /\ read_state.tag \in {"Idle", "Reading"}
    /\ read_state.tag = "Reading" =>
            /\ read_state.read < read_state.total
            /\ Len(read_buffer) = read_state.total - read_state.read
    /\ read_state.tag = "Idle" => read_state = Idle /\ read_buffer = <<>>
    /\ (cur.active /\ cur.got = cur.msg) => NoHasData

ReadStateWitness ==
    /\ read_state.tag = "Reading" /\ read_state.read = 2 /\ read_state.total = 3
    /\ last.op = "read" /\ ~last.called

\* C3: a disconnect called with unread data is refused with the count of the
\* unread bytes, total - read; it does not call the session and leaves the facade
\* connected, with its read state, overflow buffer and session as they were.
DisconnectIsRefused ==
    [][ (last'.op = "disconnect" /\ HasPendingData) =>
            /\ last'.res = "Refused"
            /\ last'.n = read_state.total - read_state.read
            /\ ~last'.called
            /\ connected /\ connected'
            /\ UNCHANGED <<read_state, read_buffer, xVars, muxVars, inVars, outVars>>
      ]_vars

DisconnectRefusedWitness ==
    /\ last.op = "disconnect" /\ last.res = "Refused" /\ last.n = 2
    /\ read_state = Reading(3, 1) /\ connected

\* C4: send, recv, read and write on a facade that never connected, or that was
\* disconnected, fail with NotConnected, call no session and change nothing.
NotConnectedGuard ==
    [][ (last'.op \in DataOps /\ phase \in {"new", "down"}) =>
            /\ last'.res = "NotConnected"
            /\ ~last'.called
            /\ UNCHANGED <<connected, read_state, read_buffer, xVars, muxVars, inVars,
                           outVars, logVars>>
      ]_vars

NotConnectedWitness ==
    /\ last.op = "write" /\ last.res = "NotConnected" /\ phase = "down"
    /\ nsent > 0

IsPrefix(a, b) == Len(a) <= Len(b) /\ Take(b, Len(a)) = a

OneCallOneMessage ==
    \A i \in 1..Len(rcvLog) :
        (i <= Len(sentLog) /\ sentLog[i] # <<>> /\ ~inBroken) => rcvLog[i] = sentLog[i]

\* C7: a send, on either end, that returns Ok returns the length of its data and
\* has put the whole of the data, after what was sent before, on its link; on a
\* framed session as one frame.
WholeMessageSend ==
    [][ /\ (last'.op \in {"send", "write"} /\ last'.res = "Ok") =>
            /\ last'.n = Len(last'.data)
            /\ Flatten(outbound') = Flatten(outbound) \o last'.data
            /\ variant = "framed" => outbound' = Append(outbound, last'.data)
        /\ (last'.op = "peer_send" /\ last'.res = "Ok") =>
            /\ last'.n = Len(last'.data)
            /\ Flatten(inbound') = Flatten(inbound) \o last'.data
            /\ variant = "framed" => inbound' = Append(inbound, last'.data)
        /\ (last'.op \in {"send", "write", "peer_send"} /\ last'.res # "Ok") =>
            last'.n = 0
      ]_vars

WholeMessageSendWitness ==
    /\ variant = "mux" /\ last.op = "send" /\ last.res = "Ok" /\ last.n = 2
    /\ Len(outLog) = 2

\* C8: the bytes a session's peer has received, followed by those still on the
\* link, begin with the payloads of the successful sends in call order, and are
\* exactly those while no send has failed part-way; on a framed session the
\* frames received and on the link are the payloads sent, in call order.
SendOrdering ==
    /\ IsPrefix(Flatten(outLog), Flatten(peerRcvLog) \o Flatten(outbound))
    /\ IsPrefix(Flatten(sentLog), Flatten(rcvLog) \o Flatten(inbound))
    /\ ~outBroken => Flatten(peerRcvLog) \o Flatten(outbound) = Flatten(outLog)
    /\ ~inBroken => Flatten(rcvLog) \o Flatten(inbound) = Flatten(sentLog)
    /\ variant = "framed" => /\ peerRcvLog \o outbound = outLog
                             /\ rcvLog \o inbound = sentLog

SendOrderingWitness ==
    /\ Len(outLog) = 2 /\ outLog[1] # <<>> /\ outLog[2] # <<>>
    /\ Flatten(peerRcvLog) = Flatten(outLog)
    /\ last.op = "peer_recv"

DisconnectFailureDisconnects ==
    (last.op = "disconnect" /\ last.called /\ last.res \notin {"Ok", "Refused"}) =>
        ~connected

\* C12: a facade that disconnect() has disconnected is never Connected again.
DisconnectIsTerminal ==
    [][phase = "down" => ~connected']_vars

\* C13: is_connected() is true only while the socket and the protocol handle are
\* live: it is false once the peer has closed the socket or a write on the
\* session's stream has failed.
IsConnectedOnlyWhileLive ==
    IsConnected => ~inClosed /\ ~outBroken

\* C18: a disconnect (like a send or a receive) made on a framed session whose
\* protocol handle is uninitialized fails; it does not return Ok.
UninitializedFramedCallFails ==
    [][ (variant = "framed" /\ ~transport /\ last'.called
            /\ last'.op \in {"disconnect", "send", "write", "recv", "read"}) =>
            last'.res # "Ok"
      ]_vars

\* C14: a yamux session obtains at most one stream on its connection, obtains it
\* inside connect or from_tokio_stream, and every send and recv reaches its I/O
\* with that stream, without opening or accepting another.
SingleStream ==
    [][ /\ nopened' <= 1
        /\ yamux_stream' => nopened' = 1
        /\ nopened' > nopened => call \in {"connect", "from_tokio_stream"}
        /\ call \in {"send", "recv"} => UNCHANGED <<yamux_stream, nopened, peerStream>>
        /\ pc' \in {"send_io", "recv_io"} => yamux_stream' /\ nopened' = 1
      ]_vars

SingleStreamWitness ==
    /\ last = Res("send", "Ok", 0, <<>>, TRUE)
    /\ ncalls = MaxCalls /\ yamux_stream /\ nopened = 1 /\ pc = "idle"

\* C15: the calling thread never waits for the lock of the Connection while the
\* driver holds it.
DataPathNeverWaitsForDriver ==
    ~(CallerWaits /\ lock = "driver")

\* C16: while disconnect waits for the driver to end, the calling thread or the
\* driver thread can always take a step of its own: the wait does not depend on
\* an event from the connection.
DisconnectJoinProceeds ==
    pc = "d_join" => ENABLED (CallerStep \/ DriverStep)

\* C17: at most one Runtime is ever built; it is built only by a thread that
\* asked for it, it is ready exactly when one was built, once ready it stays,
\* and every thread that got a runtime got that one.
ReactorSingleton ==
    [][ /\ created' <= 1
        /\ (TOKIO_RUNTIME' = "ready") <=> (created' = 1)
        /\ created' # created => \E t \in Threads : rt[t] = "init" /\ AtBlockOn(t)
        /\ TOKIO_RUNTIME = "ready" => TOKIO_RUNTIME' = "ready" /\ created' = created
        /\ \A t \in Threads : rt'[t] = "have" => TOKIO_RUNTIME' = "ready"
      ]_vars

ReactorSingletonWitness ==
    /\ created = 1 /\ TOKIO_RUNTIME = "ready"
    /\ rt["caller"] = "have" /\ rt["driver"] = "have"

\* C19: the driver never receives and drops the one stream the peer opens.
AcceptorKeepsPeerStream ==
    peerStream # "discarded"

\* C20: the driver thread is created only when the session holds its stream.
DriverCreatedAfterStream ==
    [][(drv \in {"none", "stopped"} /\ drv' = "check") => yamux_stream]_vars

\* C27: a read in state Idle receives once from the session; a message that fits
\* the buffer is handed out whole and leaves Idle with an empty overflow buffer, a
\* longer one is handed out up to the buffer's size, its remainder is the overflow
\* buffer and the state is Reading{total = len(data), read = len(buffer)}.
IdleReadStep ==
    [][ \A k \in 0..MaxBuf :
          (Read(k) /\ ReadIdle(k) /\ last'.res = "Ok") =>
            LET data == rcvLog'[Len(rcvLog')] IN
            /\ last'.called
            /\ nrecv' = nrecv + 1 /\ rcvLog' = Append(rcvLog, data)
            /\ IF Len(data) <= k
               THEN /\ last'.n = Len(data) /\ last'.data = data
                    /\ read_state' = Idle /\ read_buffer' = <<>>
               ELSE /\ last'.n = k /\ last'.data = Take(data, k)
                    /\ read_buffer' = Drop(data, k)
                    /\ read_state' = Reading(Len(data), k)
      ]_vars

IdleReadWitness ==
    /\ last.op = "read" /\ last.called /\ last.res = "Ok"
    /\ last.n = 1 /\ read_state = Reading(2, 1) /\ Len(read_buffer) = 1

\* C28: a read in state Reading{total, read} with a non-empty overflow buffer hands
\* out its first n = min(len(overflow), len(buffer)) bytes, removes them from the
\* front, does not call the session, and leaves Idle if read + n = total, else
\* Reading{total, read + n}.
ReadingReadStep ==
    [][ \A k \in 0..MaxBuf :
          (Read(k) /\ ReadReading(k) /\ read_buffer # <<>>) =>
            LET n == Min(Len(read_buffer), k) IN
            /\ last'.n = n /\ last'.data = Take(read_buffer, n)
            /\ read_buffer' = Drop(read_buffer, n)
            /\ ~last'.called
            /\ UNCHANGED <<inbound, rcvLog, nrecv>>
            /\ read_state' = IF read_state.read + n = read_state.total THEN Idle
                             ELSE Reading(read_state.total, read_state.read + n)
      ]_vars

ReadingReadWitness ==
    /\ last.op = "read" /\ ~last.called /\ last.res = "Ok" /\ last.n = 1
    /\ read_state = Reading(3, 2) /\ Len(read_buffer) = 1

\* C29: the read state is never Reading with an empty overflow buffer; and a read
\* in that state would return zero and reset the state to Idle.
DefensiveBranchUnreachable ==
    /\ ~(read_state.tag = "Reading" /\ read_buffer = <<>>)
    /\ \A t \in 1..(MaxLen * MaxMsgs), r \in 0..(MaxLen * MaxMsgs), k \in 0..MaxBuf :
          LET d == ReadBuffered(<<>>, Reading(t, r), k) IN
          d.n = 0 /\ d.out = <<>> /\ d.rb = <<>> /\ d.rs = Idle

DefensiveBranchWitness ==
    /\ last.op = "read" /\ ~last.called /\ last.n = 0 /\ last.res = "Ok"
    /\ read_state.tag = "Reading" /\ read_buffer # <<>>

\* C30: send and recv on a connected facade call the session once and leave the
\* read state and the overflow buffer as they were, whatever the read state is.
WholeMessagePathBypasses ==
    [][ (connected /\ last'.op \in {"send", "recv"}) =>
            /\ last'.called
            /\ UNCHANGED <<read_buffer, read_state>>
            /\ last'.op = "send" =>
                 /\ UNCHANGED <<inbound, rcvLog, nrecv>>
                 /\ last'.res = "Ok" => outLog' = Append(outLog, last'.data)
                 /\ last'.res # "Ok" => outLog' = outLog
            /\ last'.op = "recv" =>
                 /\ UNCHANGED <<outbound, outLog, nsent>>
                 /\ last'.res = "Ok" => /\ rcvLog' = Append(rcvLog, last'.data)
                                        /\ nrecv' = nrecv + 1
                 /\ last'.res # "Ok" => rcvLog' = rcvLog /\ inbound' = inbound
      ]_vars

WholeMessagePathWitness ==
    /\ last.op = "recv" /\ last.res = "Ok" /\ last.called
    /\ read_state.tag = "Reading" /\ read_buffer # <<>>

\* C21: whenever bytes wait on the stream of a connected multiplexed session, a
\* recv can return successfully, whether or not the peer has closed the stream.
ReceiveReturnsAvailable ==
    (variant = "mux" /\ IsConnected /\ inbound # <<>> /\ ~inClosed /\ nrecv < MaxRecvs) =>
        ENABLED (Recv /\ last'.res = "Ok")

\* C22: once the stop signal is set, a driver that has not ended can take a step
\* of its own towards its end, whatever the connection does.
DriverStopsOnSignal ==
    (driver_stop_flag /\ drv \notin {"none", "stopped"}) => ENABLED DriverStep

\* C23: when disconnect has signalled the driver to stop, the session's stream has
\* been closed already.
DisconnectClosesStreamFirst ==
    (call = "disconnect" /\ driver_stop_flag /\ yamux_stream) => outClosed

\* C24: once the session holds its stream it holds no connection.
OwnershipHandoff ==
    yamux_stream => ~connection

\* C26: when send has returned Ok, the stream holds no unflushed byte.
SendFlushes ==
    (last.op = "send" /\ last.res = "Ok") => ~unflushed

\* C25: a successful send leaves the stream open for writing.
StreamPersistsAcrossSends ==
    [][(last'.op = "send" /\ last'.res = "Ok") => ~outClosed']_vars

----------------------------------------------------------------------------
\* C31: write(buffer) on a Connected facade is exactly one session send of
\* exactly the bytes of buffer: nothing is accumulated from earlier writes and
\* nothing is split off; on success it returns the buffer's length and the
\* bytes are on the wire once, behind everything sent before.  The read state
\* and the overflow buffer are as before.  flush() succeeds, transmits nothing
\* and changes no state of the facade, the session or the link.
WriteIsOneSend ==
    [][/\ \A n \in 0..MaxLen :
            (Write(n) /\ connected) =>
                LET data == Payload(Len(Flatten(outLog)), n) IN
                /\ last'.op = "write" /\ last'.called
                /\ UNCHANGED <<read_buffer, read_state, connected, inVars, rcvLog,
                               nrecv>>
                /\ last'.res = "Ok" =>
                      /\ last'.n = n /\ last'.data = data
                      /\ outLog' = Append(outLog, data)
                      /\ Flatten(outbound') = Flatten(outbound) \o data
                      /\ Len(outbound') <= Len(outbound) + 1
       /\ Flush =>
            /\ last'.op = "flush" /\ last'.res = "Ok" /\ ~last'.called
            /\ UNCHANGED <<facadeVars, xVars, muxVars, inVars, outVars, logVars,
                           countVars>>]_vars

\* A write of a full-length buffer succeeded while an earlier message was only
\* partly read.
WriteIsOneSendWitness ==
    /\ last.op = "write" /\ last.res = "Ok" /\ last.n = MaxLen
    /\ read_state.tag = "Reading" /\ read_buffer # <<>>

----------------------------------------------------------------------------
\* C32: has_pending_data(), the negation of no_has_data(), is true unless the
\* read state is Idle and the overflow buffer is empty.  In every reachable
\* state it is true exactly when the overflow buffer holds unread bytes, and
\* these are the rest of the one message that the reads have partly handed
\* out.  It is a function of read_buffer and read_state alone (`&self`), so
\* evaluating it changes nothing.
PendingDataExact ==
    /\ HasPendingData <=> ~(read_state = Idle /\ read_buffer = <<>>)
    /\ HasPendingData <=> read_buffer # <<>>
    /\ HasPendingData <=> read_state.tag = "Reading"
    /\ HasPendingData =>
            /\ cur.active
            /\ Len(cur.got) < Len(cur.msg)
            /\ read_buffer = Drop(cur.msg, Len(cur.got))

\* After a read of one byte on the framed variant one byte of the message is
\* still unread.
PendingDataWitness ==
    /\ variant = "framed"
    /\ last.op = "read" /\ last.res = "Ok" /\ last.n = 1
    /\ HasPendingData
    /\ Len(read_buffer) = 1

----------------------------------------------------------------------------
\* C33: after the session's disconnect() has returned Ok the session holds no
\* protocol handle and no socket handle: the framed session neither transport
\* nor stream, the multiplexed session neither stream, connection nor driver
\* handle.
DisconnectReleasesAll ==
    (last.op = "disconnect" /\ last.res = "Ok" /\ last.called) =>
        /\ ~transport /\ ~stream
        /\ ~yamux_stream /\ ~connection /\ ~driver_handle

----------------------------------------------------------------------------
\* C34: disconnect() of a framed session drops the framing handle before the
\* socket is shut down in both directions, so the handle is gone whatever the
\* shutdown does and the session's is_connected() is false afterwards; the
\* call returns Ok only if there was no socket or the shutdown succeeded, and
\* a failed shutdown is returned as the error and leaves the socket as it was.
FramedDisconnect ==
    [][(variant = "framed" /\ last'.op = "disconnect" /\ last'.called) =>
          /\ ~transport'
          /\ ~XIsConnected(stream', transport')
          /\ last'.res \in {"Ok", "ConnectionRefused"}
          /\ last'.res = "Ok" => (~stream \/ outClosed')
          /\ last'.res = "ConnectionRefused" => (stream /\ outClosed' = outClosed)]_vars

\* A framed disconnect whose shutdown failed: the error is returned and the
\* framing handle is gone while the socket is still held.
FramedDisconnectWitness ==
    /\ variant = "framed"
    /\ last.op = "disconnect" /\ last.called /\ last.res = "ConnectionRefused"
    /\ ~transport /\ stream /\ ~outClosed

----------------------------------------------------------------------------
\* C37: whatever the interleaving of read() and recv() on a Connected facade,
\* the bytes reach the caller in the order the session delivered them: recv()
\* does not return a message while bytes of an earlier, partly read message
\* are still in the overflow buffer.
MixedReadOrder ==
    (last.op = "recv" /\ last.res = "Ok" /\ last.data # <<>>) => read_buffer = <<>>

----------------------------------------------------------------------------
\* C35: once the driver has ended because its connection reported an error or
\* its closure, the next send or recv on the handler returns a TransportError.
DriverFailureSurfaces ==
    (afterDriverEnd /\ pc = "idle" /\ last.op \in {"send", "recv"}) =>
        last.res = "TransportError"

----------------------------------------------------------------------------
\* C36: an inbound stream the driver observes is dropped by the driver: it is
\* not stored in the handler, does not replace the handler's stream, brings no
\* data to the caller, and the driver goes back to the head of its loop.
InboundStreamsDiscarded ==
    [][(DriverPoll /\ (peerStream = "pending" \/ extraStream = "pending")) =>
          /\ \/ peerStream = "pending" /\ peerStream' = "discarded"
             \/ extraStream = "pending" /\ extraStream' = "discarded"
          /\ peerStream' # "session" \/ peerStream = "session"
          /\ drv' = "check"
          /\ UNCHANGED <<yamux_stream, staleStream, nopened, connection, driver_handle,
                         inVars, rcvLog, read_buffer, read_state>>]_vars

\* The driver has dropped a further stream of the peer and loops on, while the
\* handler holds the one stream it obtained.
InboundStreamsDiscardedWitness ==
    /\ extraStream = "discarded"
    /\ last.op = "driver" /\ last.res = "Inbound"
    /\ drv = "check"
    /\ yamux_stream /\ nopened = 1

----------------------------------------------------------------------------
\* C38: while the handler is connected (connect or from_tokio_stream has
\* returned Ok and disconnect has not been called since) the stop flag of its
\* driver is clear, also for a connect that follows an earlier disconnect.
StopFlagClearWhileConnected ==
    (pc = "idle" /\ connection /\ yamux_stream) => ~driver_stop_flag

----------------------------------------------------------------------------
\* C39: whatever connect, from_tokio_stream and disconnect calls have been
\* made on a handler, at most one driver thread it started is still running,
\* and the handler (or its disconnect, which joins it) holds the JoinHandle of
\* every driver thread that is still running.
OneLiveDriver ==
    /\ orphans + (IF drv \in Running THEN 1 ELSE 0) <= 1
    /\ orphans = 0
    /\ drv \in Running => (driver_handle \/ pc = "d_join")

====
